---- MODULE Spec2Model ----
\* Model of the policy dispatcher of update_manager-inl.h:
\* UpdateManager::EvaluatePolicy, OnPolicyReadyToEvaluate, PolicyRequest and
\* AsyncPolicyRequest, run by a single-threaded main loop.  Each handler is one
\* atomic action (the code is cooperative and never yields inside a handler);
\* the order of the calls a handler makes on its collaborators is kept in
\* last.calls.  The policies, the EvaluationContext and the main loop are
\* collaborators: their return values are inputs drawn from small sets.
EXTENDS Integers, Sequences, FiniteSets, TLC

\* ------------------------------------------------------------------ bounds
MaxRequests == 2      \* requests (sync or async) issued in one behaviour

\* ------------------------------------------------------------- value sets
kSucceeded == "kSucceeded"
kFailed == "kFailed"
kAskMeAgainLater == "kAskMeAgainLater"
EvalStatus == {kSucceeded, kFailed, kAskMeAgainLater}

\* The value of a default-initialised result slot (R result;).
DefaultR == 0
\* Values the policies may write into the result slot.  The two policies
\* are different objects: their values are kept apart so that the origin of
\* a delivered result can be told.
PrimaryValues == {41}
DefaultValues == {42}
\* What a policy may make the context wait on: a variable of the State it
\* reads through the context, or a point in time it asks about.
Vars == {"x"}
\* The decision operations (policy_method) and the argument values (args...).
Methods == {"UpdateCheckAllowed"}
ArgVals == {7}

\* What one invocation of a policy method does: the status it returns, the
\* value it writes through R* (<<>>: it leaves the slot alone) and what it
\* reads through the context.  A policy that returns kSucceeded has written
\* its result; one that fails may have written a partial one.
PolicyOutcomes(values) ==
  { o \in [status : EvalStatus, write : {<<>>} \cup {<<v>> : v \in values},
           reads : SUBSET Vars] :
      /\ (o.status = kSucceeded) => (o.write # <<>>)
      /\ (o.status = kAskMeAgainLater) => (o.write = <<>>) }
PrimaryOutcomes == PolicyOutcomes(PrimaryValues)

\* The outcomes of the default policy to consider after the primary's pOut:
\* the default policy is a second input only where it can be invoked.
DefaultOutcomes(pOut) ==
  IF pOut.status = kFailed THEN PolicyOutcomes(DefaultValues)
  ELSE {[status |-> kFailed, write |-> <<>>, reads |-> {}]}

\* One call made by a handler on a collaborator: its name, the context,
\* State, method and argument values passed, and what it returned.
Call(name, e, m, a, ret) ==
  [call |-> name, ec |-> e, state |-> "", method |-> m, args |-> a,
   ret |-> ret]

\* state_.get(): the one State object of the UpdateManager.
State == "state_"

\* The closure base::Bind builds around OnPolicyReadyToEvaluate: the bound
\* context, callback (named by the request it belongs to), method and args.
Closure(r, e, m, a) == [r |-> r, ec |-> e, method |-> m, args |-> a]

VARIABLES
  req,      \* req[r]: the request as issued: kind, context, method, args
  ecs,      \* the EvaluationContexts created so far, by id
  loop,     \* the closures posted with RunFromMainLoop, in order
  cbCount,  \* cbCount[r]: how many times r's delivery callback has run
  cbArgs,   \* cbArgs[r]: the (status, result) of its latest run
  tick,     \* tick[r]: parity of the number of passes run for r
  dropped,  \* dropped[r]: r's outstanding closure was released unfired
  last,     \* the handler that ran last and the calls it made
  dcheck,   \* whether the build compiles DCHECK in
  aborted   \* the process died on a failed DCHECK

vars == <<req, ecs, loop, cbCount, cbArgs, tick, dropped, last,
          dcheck, aborted>>

Requests == 1..MaxRequests
NoRequest == [kind |-> "none", ec |-> 0, method |-> "", args |-> 0]
NoArgs == [status |-> "", result |-> DefaultR]

\* --------------------------------------------------- EvaluationContext
\* new EvaluationContext(...): not expired, nothing observed, no closure.
NewContext ==
  [alive |-> TRUE, expired |-> FALSE, observed |-> {}, callback_ |-> <<>>]

\* A context whose last scoped_refptr is gone.
Destroyed == [NewContext EXCEPT !.alive = FALSE]

\* The scoped_refptr a handler or a closure held goes away with it: the
\* context lives on only if it keeps a closure, which holds a reference.
Release(c) == IF c.callback_ = <<>> THEN Destroyed ELSE c

\* ec->ResetExpiration()
ResetExpiration(c) == [c EXCEPT !.expired = FALSE]

\* ec->ResetEvaluation(): the per-pass observation state is discarded.
ResetEvaluation(c) == [c EXCEPT !.observed = {}]

\* The context as a policy invocation leaves it: what the policy read is
\* added to the observation state of the pass.
Observe(c, o) == [c EXCEPT !.observed = @ \cup o.reads]

\* ec->RunOnValueChangeOrTimeout(closure): true and the closure kept when
\* the last pass left something to wait on, false otherwise.
CanSchedule(c) == c.observed # {}
RunOnValueChangeOrTimeout(c, cl) ==
  IF CanSchedule(c) THEN [ok |-> TRUE, ec |-> [c EXCEPT !.callback_ = <<cl>>]]
                    ELSE [ok |-> FALSE, ec |-> c]

\* ------------------------------------------------------ EvaluatePolicy
\* BeginPass with the two resets in the other order.
BeginPass_ResetFirst(c, e) ==
  LET reset == Call("ResetEvaluation", e, "", 0, "")
  IN IF c.expired
       THEN [ec |-> ResetExpiration(ResetEvaluation(c)),
             calls |-> <<reset, Call("is_expired", e, "", 0, "true"),
                         Call("ResetExpiration", e, "", 0, "")>>]
       ELSE [ec |-> ResetEvaluation(c),
             calls |-> <<reset, Call("is_expired", e, "", 0, "false")>>]

\* BeginPass resetting the expiration whether or not the context expired.
BeginPass_AlwaysResetExpiration(c, e) ==
  LET reset == Call("ResetEvaluation", e, "", 0, "")
  IN [ec |-> ResetEvaluation(ResetExpiration(c)),
      calls |-> <<Call("is_expired", e, "", 0,
                       IF c.expired THEN "true" ELSE "false"),
                  Call("ResetExpiration", e, "", 0, ""), reset>>]

\* Lines 28-35: the expiration check, then the reset of the evaluation.
BeginPass(c, e) ==
  LET reset == Call("ResetEvaluation", e, "", 0, "")
  IN IF c.expired
       THEN [ec |-> ResetEvaluation(ResetExpiration(c)),
             calls |-> <<Call("is_expired", e, "", 0, "true"),
                         Call("ResetExpiration", e, "", 0, ""), reset>>]
       ELSE [ec |-> ResetEvaluation(c),
             calls |-> <<Call("is_expired", e, "", 0, "false"), reset>>]

\* (policy->*policy_method)(ec, state, &error, result, args...) with the
\* outcome o: the status returned, the result slot and the context after it.
InvokePolicy(who, c, e, st, m, a, result, o) ==
  [status |-> o.status,
   result |-> IF o.write = <<>> THEN result ELSE o.write[1],
   ec |-> Observe(c, o),
   calls |-> <<[Call(who, e, m, a, o.status) EXCEPT !.state = st]>>]

\* Lines 42-43: the call of the primary policy.
PrimaryPolicyCall(c, e, m, a, result, o) ==
  InvokePolicy("policy_", c, e, State, m, a, result, o)

\* NeedsFallback taking the fallback whenever the primary did not succeed.
NeedsFallback_NotSucceeded(status) == status # kSucceeded

\* Line 45: the fallback is taken when the primary policy failed.
NeedsFallback(status) == status = kFailed

\* DefaultPolicyCall resetting the evaluation before the fallback.
DefaultPolicyCall_Reset(c, e, m, a, result, o) ==
  LET d == InvokePolicy("default_policy_", ResetEvaluation(c), e, State, m, a,
                        result, o)
  IN [d EXCEPT !.calls = <<Call("ResetEvaluation", e, "", 0, "")>> \o @]

\* Lines 49-50: the call of the default policy, on what the primary was given.
DefaultPolicyCall(c, e, m, a, result, o) ==
  InvokePolicy("default_policy_", c, e, State, m, a, result, o)

\* ForceFailure without the downgrade.
ForceFailure_Keep(status) == status

\* Lines 51-57: a default policy that would block is forced to kFailed.
ForceFailure(status) ==
  IF status = kAskMeAgainLater THEN kFailed ELSE status

\* EvaluatePolicy handing on, after the fallback, what the primary left in
\* the result slot.
EvaluatePolicy_PrimaryResult(c, e, m, a, result, pOut, dOut) ==
  LET b == BeginPass(c, e)
      p == PrimaryPolicyCall(b.ec, e, m, a, result, pOut)
  IN IF NeedsFallback(p.status)
       THEN LET d == DefaultPolicyCall(p.ec, e, m, a, p.result, dOut)
            IN [status |-> ForceFailure(d.status), result |-> p.result,
                ec |-> d.ec, calls |-> b.calls \o p.calls \o d.calls]
       ELSE [status |-> p.status, result |-> p.result, ec |-> p.ec,
             calls |-> b.calls \o p.calls]

\* Lines 18-63.  The value is the returned status, the result slot, the
\* context after the pass and the calls made.
EvaluatePolicy(c, e, m, a, result, pOut, dOut) ==
  LET b == BeginPass(c, e)
      p == PrimaryPolicyCall(b.ec, e, m, a, result, pOut)
  IN IF NeedsFallback(p.status)
       THEN LET d == DefaultPolicyCall(p.ec, e, m, a, p.result, dOut)
            IN [status |-> ForceFailure(d.status), result |-> d.result,
                ec |-> d.ec, calls |-> b.calls \o p.calls \o d.calls]
       ELSE [status |-> p.status, result |-> p.result, ec |-> p.ec,
             calls |-> b.calls \o p.calls]

\* ---------------------------------------------- OnPolicyReadyToEvaluate
\* ReevalCallback binding other argument values than it was run with.
ReevalCallback_Rebound(cl) == Closure(cl.r, cl.ec, cl.method, cl.args + 1)

\* ReevalCallback binding the callback of the first request, as if the
\* callback were kept in the manager and not in the closure.
ReevalCallback_FirstCallback(cl) == Closure(1, cl.ec, cl.method, cl.args)

\* Lines 84-87: the closure bound for the reevaluation.
ReevalCallback(cl) == Closure(cl.r, cl.ec, cl.method, cl.args)

\* Line 79 and line 97: callback.Run(status, result).
CallbackRun(cl, status, result) ==
  [runs |-> <<[status |-> status, result |-> result]>>,
   calls |-> <<Call("callback.Run", 0, "", 0, "")>>]

\* OnScheduleFailure leaving the request unresolved.
OnScheduleFailure_Leak(cl, status, result) == [runs |-> <<>>, calls |-> <<>>]

\* OnScheduleFailure delivering a forced kFailed.
OnScheduleFailure_ForceFailed(cl, status, result) ==
  CallbackRun(cl, kFailed, result)

\* Lines 91-97: what is done when the reevaluation could not be scheduled.
OnScheduleFailure(cl, status, result) == CallbackRun(cl, status, result)

\* OnPolicyReadyToEvaluate without the return of line 80: after the delivery
\* it goes on to schedule a reevaluation.
OnPolicyReadyToEvaluate_NoReturn(c, cl, pOut, dOut) ==
  LET ev == EvaluatePolicy(c, cl.ec, cl.method, cl.args, DefaultR, pOut, dOut)
      first == IF ev.status # kAskMeAgainLater
                 THEN CallbackRun(cl, ev.status, ev.result)
                 ELSE [runs |-> <<>>, calls |-> <<>>]
      reg == RunOnValueChangeOrTimeout(ev.ec, ReevalCallback(cl))
      regCall == Call("RunOnValueChangeOrTimeout", cl.ec, "", 0,
                      IF reg.ok THEN "true" ELSE "false")
      second == IF reg.ok THEN [runs |-> <<>>, calls |-> <<>>]
                ELSE OnScheduleFailure(cl, ev.status, ev.result)
  IN [ec |-> reg.ec, runs |-> first.runs \o second.runs,
      calls |-> ev.calls \o first.calls \o <<regCall>> \o second.calls,
      pass |-> ev]

\* Lines 65-98, run on the context c bound in the closure cl.  The value is
\* the context after the handler, the runs of the delivery callback, the
\* calls made, and the pass (EvaluatePolicy's value).
OnPolicyReadyToEvaluate(c, cl, pOut, dOut) ==
  LET ev == EvaluatePolicy(c, cl.ec, cl.method, cl.args, DefaultR, pOut, dOut)
  IN IF ev.status # kAskMeAgainLater
       THEN LET run == CallbackRun(cl, ev.status, ev.result)
            IN [ec |-> ev.ec, runs |-> run.runs,
                calls |-> ev.calls \o run.calls, pass |-> ev]
       ELSE LET reg == RunOnValueChangeOrTimeout(ev.ec, ReevalCallback(cl))
                regCall == Call("RunOnValueChangeOrTimeout", cl.ec, "", 0,
                                IF reg.ok THEN "true" ELSE "false")
            IN IF reg.ok
                 THEN [ec |-> reg.ec, runs |-> <<>>,
                       calls |-> ev.calls \o <<regCall>>, pass |-> ev]
                 ELSE LET run == OnScheduleFailure(cl, ev.status, ev.result)
                      IN [ec |-> reg.ec, runs |-> run.runs,
                          calls |-> ev.calls \o <<regCall>> \o run.calls,
                          pass |-> ev]

\* --------------------------------------------------------------- state
NumRequests == Cardinality({r \in Requests : req[r].kind # "none"})

\* The closures of request r that are still held: posted on the main loop or
\* registered in a context.
Posted(r) == {i \in 1..Len(loop) : loop[i].r = r}
Registered(r) ==
  {e \in 1..Len(ecs) : ecs[e].callback_ # <<>> /\ ecs[e].callback_[1].r = r}
Outstanding(r) == Cardinality(Posted(r)) + Cardinality(Registered(r))

NoHandler ==
  [handler |-> "", r |-> 0, calls |-> <<>>, status |-> "",
   result |-> DefaultR, returned |-> TRUE]

Init ==
  /\ req = [r \in Requests |-> NoRequest]
  /\ ecs = <<>>
  /\ loop = <<>>
  /\ cbCount = [r \in Requests |-> 0]
  /\ cbArgs = [r \in Requests |-> NoArgs]
  /\ tick = [r \in Requests |-> 0]
  /\ dropped = [r \in Requests |-> FALSE]
  /\ last = NoHandler
  /\ dcheck \in BOOLEAN
  /\ aborted = FALSE

\* One more pass (one run of EvaluatePolicy) for request r.
CountPass(r) == tick' = [tick EXCEPT ![r] = 1 - @]

\* The closure cl is run: OnPolicyReadyToEvaluate on the contexts ecs0 (the
\* store once the holder of cl has let go of it) with the main loop loop0.
RunClosure(handler, cl, ecs0, loop0, pOut, dOut) ==
  \E eff \in {OnPolicyReadyToEvaluate(ecs0[cl.ec], cl, pOut, dOut)} :
     /\ ecs' = [ecs0 EXCEPT ![cl.ec] = Release(eff.ec)]
     /\ loop' = loop0
     /\ cbCount' = [cbCount EXCEPT ![cl.r] = @ + Len(eff.runs)]
     /\ cbArgs' = IF eff.runs = <<>> THEN cbArgs
                  ELSE [cbArgs EXCEPT ![cl.r] = eff.runs[Len(eff.runs)]]
     /\ CountPass(cl.r)
     /\ last' = [handler |-> handler, r |-> cl.r, calls |-> eff.calls,
                 status |-> eff.pass.status, result |-> eff.pass.result,
                 returned |-> TRUE]
     /\ UNCHANGED <<dropped, dcheck, aborted>>

\* ------------------------------------------------------------- actions
\* AsyncPolicyRequest evaluating on the calling stack instead of posting.
AsyncPolicyRequest_Inline(m, a) ==
  /\ ~aborted
  /\ NumRequests < MaxRequests
  /\ LET r == NumRequests + 1
         e == Len(ecs) + 1
     IN /\ req' = [req EXCEPT ![r] =
                     [kind |-> "async", ec |-> e, method |-> m, args |-> a]]
        /\ \E pOut \in PrimaryOutcomes : \E dOut \in DefaultOutcomes(pOut) :
             RunClosure("AsyncPolicyRequest", Closure(r, e, m, a),
                        Append(ecs, NewContext), loop, pOut, dOut)

\* AsyncPolicyRequest posting the first evaluation twice.
AsyncPolicyRequest_PostTwice(m, a) ==
  /\ ~aborted
  /\ NumRequests < MaxRequests
  /\ LET r == NumRequests + 1
         e == Len(ecs) + 1
     IN /\ req' = [req EXCEPT ![r] =
                     [kind |-> "async", ec |-> e, method |-> m, args |-> a]]
        /\ ecs' = Append(ecs, NewContext)
        /\ loop' = loop \o <<Closure(r, e, m, a), Closure(r, e, m, a)>>
        /\ last' = [NoHandler EXCEPT !.handler = "AsyncPolicyRequest", !.r = r,
                      !.calls = <<Call("RunFromMainLoop", e, m, a, ""),
                                  Call("RunFromMainLoop", e, m, a, "")>>]
  /\ UNCHANGED <<cbCount, cbArgs, tick, dropped, dcheck, aborted>>

\* AsyncPolicyRequest evaluating on one context kept for all requests.
AsyncPolicyRequest_SharedContext(m, a) ==
  /\ ~aborted
  /\ NumRequests < MaxRequests
  /\ LET r == NumRequests + 1
         e == 1
     IN /\ req' = [req EXCEPT ![r] =
                     [kind |-> "async", ec |-> e, method |-> m, args |-> a]]
        /\ ecs' = IF ecs = <<>> THEN <<NewContext>>
                  ELSE [ecs EXCEPT ![e].alive = TRUE]
        /\ loop' = Append(loop, Closure(r, e, m, a))
        /\ last' = [NoHandler EXCEPT !.handler = "AsyncPolicyRequest", !.r = r,
                      !.calls = <<Call("RunFromMainLoop", e, m, a, "")>>]
  /\ UNCHANGED <<cbCount, cbArgs, tick, dropped, dcheck, aborted>>

\* Lines 122-138: a context is created and the first evaluation is posted.
AsyncPolicyRequest(m, a) ==
  /\ ~aborted
  /\ NumRequests < MaxRequests
  /\ LET r == NumRequests + 1
         e == Len(ecs) + 1
     IN /\ req' = [req EXCEPT ![r] =
                     [kind |-> "async", ec |-> e, method |-> m, args |-> a]]
        /\ ecs' = Append(ecs, NewContext)
        /\ loop' = Append(loop, Closure(r, e, m, a))
        /\ last' = [NoHandler EXCEPT !.handler = "AsyncPolicyRequest", !.r = r,
                      !.calls = <<Call("RunFromMainLoop", e, m, a, "")>>]
  /\ UNCHANGED <<cbCount, cbArgs, tick, dropped, dcheck, aborted>>

\* SyncEvaluate running a second pass when the first would block.
SyncEvaluate_Retry(c, e, m, a, pOut, dOut) ==
  LET ev == EvaluatePolicy(c, e, m, a, DefaultR, pOut, dOut)
      again == EvaluatePolicy(ev.ec, e, m, a, ev.result, pOut, dOut)
  IN IF ev.status = kAskMeAgainLater
       THEN [again EXCEPT !.calls = ev.calls \o @]
       ELSE ev

\* Lines 113-114 of PolicyRequest: the single evaluation.
SyncEvaluate(c, e, m, a, pOut, dOut) ==
  EvaluatePolicy(c, e, m, a, DefaultR, pOut, dOut)

\* Line 116: DCHECK(EvalStatus::kAskMeAgainLater != ret).
DCheckHolds(ret) == kAskMeAgainLater # ret

\* Lines 100-120: a synchronous request.  With DCHECK compiled in, a failed
\* DCHECK ends the process before the function returns.
PolicyRequest(m, a) ==
  /\ ~aborted
  /\ NumRequests < MaxRequests
  /\ \E pOut \in PrimaryOutcomes : \E dOut \in DefaultOutcomes(pOut) :
     \E ev \in {SyncEvaluate(NewContext, Len(ecs) + 1, m, a, pOut, dOut)} :
       LET r == NumRequests + 1
           e == Len(ecs) + 1
           dies == dcheck /\ ~DCheckHolds(ev.status)
       IN /\ req' = [req EXCEPT ![r] =
                       [kind |-> "sync", ec |-> e, method |-> m, args |-> a]]
          /\ ecs' = Append(ecs, Release(ev.ec))
          /\ CountPass(r)
          /\ aborted' = dies
          /\ last' = [handler |-> "PolicyRequest", r |-> r, calls |-> ev.calls,
                      status |-> ev.status, result |-> ev.result,
                      returned |-> ~dies]
  /\ UNCHANGED <<loop, cbCount, cbArgs, dropped, dcheck>>

\* The main loop runs the closure at its head.
RunFromMainLoop ==
  /\ ~aborted
  /\ loop # <<>>
  /\ \E pOut \in PrimaryOutcomes : \E dOut \in DefaultOutcomes(pOut) :
       RunClosure("RunFromMainLoop", Head(loop), ecs, Tail(loop), pOut, dOut)
  /\ UNCHANGED req

\* A value read in the last pass changes, or the timeout elapses: context e
\* lets go of its closure and runs it.
OnValueChangedOrTimeout(e) ==
  /\ ~aborted
  /\ e \in 1..Len(ecs)
  /\ ecs[e].callback_ # <<>>
  /\ \E pOut \in PrimaryOutcomes : \E dOut \in DefaultOutcomes(pOut) :
       RunClosure("OnValueChangedOrTimeout", ecs[e].callback_[1],
                  [ecs EXCEPT ![e].callback_ = <<>>], loop, pOut, dOut)
  /\ UNCHANGED req

\* The expiration deadline of a pending asynchronous request passes.
Expire(r) ==
  /\ ~aborted
  /\ req[r].kind = "async"
  /\ Outstanding(r) > 0
  /\ ~ecs[req[r].ec].expired
  /\ ecs' = [ecs EXCEPT ![req[r].ec].expired = TRUE]
  /\ UNCHANGED <<req, loop, cbCount, cbArgs, tick, dropped, last,
                 dcheck, aborted>>

\* The main loop releases a posted closure without running it.
DropPosted(i) ==
  /\ ~aborted
  /\ i \in 1..Len(loop)
  /\ loop' = SubSeq(loop, 1, i - 1) \o SubSeq(loop, i + 1, Len(loop))
  /\ ecs' = [ecs EXCEPT ![loop[i].ec] = Release(@)]
  /\ dropped' = [dropped EXCEPT ![loop[i].r] = TRUE]
  /\ UNCHANGED <<req, cbCount, cbArgs, tick, last, dcheck, aborted>>

\* Context e releases its registered closure without running it.
DropRegistered(e) ==
  /\ ~aborted
  /\ e \in 1..Len(ecs)
  /\ ecs[e].callback_ # <<>>
  /\ ecs' = [ecs EXCEPT ![e] = Destroyed]
  /\ dropped' = [dropped EXCEPT ![ecs[e].callback_[1].r] = TRUE]
  /\ UNCHANGED <<req, loop, cbCount, cbArgs, tick, last, dcheck,
                 aborted>>

Next ==
  \/ \E m \in Methods, a \in ArgVals : AsyncPolicyRequest(m, a)
  \/ \E m \in Methods, a \in ArgVals : PolicyRequest(m, a)
  \/ RunFromMainLoop
  \/ \E e \in 1..Len(ecs) : OnValueChangedOrTimeout(e)
  \/ \E r \in Requests : Expire(r)
  \/ \E i \in 1..Len(loop) : DropPosted(i)
  \/ \E e \in 1..Len(ecs) : DropRegistered(e)

Spec == Init /\ [][Next]_vars

\* A fair event loop: a closure that stays posted is eventually run, and a
\* closure that stays registered in a context is eventually fired (a value
\* changes, or the evaluation timeout elapses).
LiveSpec ==
  /\ Spec
  /\ WF_vars(RunFromMainLoop)
  /\ \A e \in 1..MaxRequests : WF_vars(OnValueChangedOrTimeout(e))

\* ------------------------------------------------------------ properties
\* The calls of the handler that ran last.
Positions(name) == {i \in 1..Len(last.calls) : last.calls[i].call = name}
Count(name) == Cardinality(Positions(name))
First(name) == CHOOSE i \in Positions(name) : \A j \in Positions(name) : i <= j
Ret(name) == IF Positions(name) = {} THEN "" ELSE last.calls[First(name)].ret

SyncPass == last.handler = "PolicyRequest"
AsyncPass == last.handler \in {"RunFromMainLoop", "OnValueChangedOrTimeout"}
AnyPass == SyncPass \/ AsyncPass
IsAsync(r) == req[r].kind = "async"
Delivered(r) == cbCount[r] >= 1

\* C1: the delivery callback of an asynchronous request runs at most once,
\* and once it has run the request holds no closure, no further pass is run
\* for it and the callback does not run again.
C1_DeliveredOnceThenQuiet ==
  /\ [](\A r \in Requests :
          /\ cbCount[r] <= 1
          /\ Delivered(r) => Outstanding(r) = 0)
  /\ [][\A r \in Requests :
          Delivered(r) => /\ tick'[r] = tick[r]
                          /\ cbCount'[r] = cbCount[r]
                          /\ cbArgs'[r] = cbArgs[r]]_vars

\* A request delivered by a pass that followed a reschedule firing.
C1_Witness ==
  \E r \in Requests :
    /\ cbCount[r] = 1 /\ tick[r] = 0
    /\ last.r = r /\ last.handler = "OnValueChangedOrTimeout"

\* What resolves an asynchronous request for good.
Resolved(r) == Delivered(r) \/ dropped[r] \/ aborted

Unschedulable ==
  /\ AsyncPass
  /\ last.status = kAskMeAgainLater
  /\ Ret("RunOnValueChangeOrTimeout") = "false"

\* C3 as stated: in the unschedulable case the callback fires exactly once
\* with kFailed, and the request holds no closure for a further pass.
C3_Original ==
  Unschedulable =>
    /\ Count("callback.Run") = 1
    /\ cbCount[last.r] = 1
    /\ cbArgs[last.r].status = kFailed
    /\ Outstanding(last.r) = 0

\* C3 amended: in the unschedulable case the callback fires exactly once
\* with the status of the pass, kAskMeAgainLater, and its result, and the
\* request holds no closure for a further pass.
C3_UnschedulableDeliversAskMeAgainLater ==
  Unschedulable =>
    /\ Count("callback.Run") = 1
    /\ cbCount[last.r] = 1
    /\ cbArgs[last.r] = [status |-> kAskMeAgainLater, result |-> last.result]
    /\ Outstanding(last.r) = 0

C3_Witness == Unschedulable /\ last.handler = "RunFromMainLoop"

\* C4: a pass whose primary policy returns kFailed and whose default policy
\* returns kAskMeAgainLater returns kFailed, and no reevaluation is
\* scheduled in it.
C4_DefaultNeverBlocks ==
  (AnyPass /\ Ret("policy_") = kFailed
           /\ Ret("default_policy_") = kAskMeAgainLater) =>
    /\ last.status = kFailed
    /\ Count("RunOnValueChangeOrTimeout") = 0
    /\ AsyncPass => /\ Count("callback.Run") = 1
                    /\ cbArgs[last.r].status = kFailed

C4_Witness ==
  /\ AsyncPass
  /\ Ret("policy_") = kFailed
  /\ Ret("default_policy_") = kAskMeAgainLater

\* C5: every pass invokes the primary policy exactly once, and the default
\* policy exactly once if the primary returned kFailed and not at all
\* otherwise.
C5_FallbackIffPrimaryFailed ==
  AnyPass =>
    /\ Count("policy_") = 1
    /\ Count("default_policy_") = IF Ret("policy_") = kFailed THEN 1 ELSE 0

C5_Witness ==
  AnyPass /\ Ret("policy_") = kAskMeAgainLater /\ Count("default_policy_") = 0

\* The call of the primary and of the default policy in the last pass.
PrimaryCall == last.calls[First("policy_")]
DefaultCall == last.calls[First("default_policy_")]

\* C6: when the fallback is taken, the default policy is invoked right after
\* the primary one, in the same pass, with the context, State, method and
\* argument values the primary was given, and the evaluation is not reset
\* again in between.
C6_FallbackSameArguments ==
  (AnyPass /\ Count("default_policy_") >= 1) =>
    /\ First("default_policy_") = First("policy_") + 1
    /\ DefaultCall.ec = PrimaryCall.ec
    /\ DefaultCall.state = PrimaryCall.state
    /\ DefaultCall.method = PrimaryCall.method
    /\ DefaultCall.args = PrimaryCall.args
    /\ Count("ResetEvaluation") = 1
    /\ First("ResetEvaluation") < First("policy_")

C6_Witness == AnyPass /\ Ret("default_policy_") = kSucceeded

\* What every synchronous request does: one pass on a context created for
\* it, nothing scheduled, nothing posted, no callback.
SyncSinglePass ==
  /\ Count("policy_") = 1
  /\ Count("ResetEvaluation") = 1
  /\ Count("RunOnValueChangeOrTimeout") = 0
  /\ Count("RunFromMainLoop") = 0
  /\ Count("callback.Run") = 0
  /\ Outstanding(last.r) = 0
  /\ req[last.r].ec = Len(ecs)
  /\ \A i \in 1..Len(last.calls) : last.calls[i].ec = req[last.r].ec
  /\ \A r \in Requests \ {last.r} : req[r].ec # req[last.r].ec

C8_FirstPassOnlyFromMainLoop ==
  /\ [](last.handler = "AsyncPolicyRequest" =>
          /\ Len(last.calls) = 1
          /\ Count("RunFromMainLoop") = 1
          /\ tick[last.r] = 0
          /\ cbCount[last.r] = 0)
  /\ [](\A r \in Requests : Cardinality(Posted(r)) <= 1)
  /\ [][\A r \in Requests :
          /\ (req[r].kind = "none" /\ req'[r].kind = "async") =>
               /\ loop' = Append(loop, Closure(r, req'[r].ec, req'[r].method,
                                               req'[r].args))
               /\ tick'[r] = 0 /\ cbCount'[r] = 0
          /\ (req'[r].kind = req[r].kind) =>
               Cardinality(Posted(r))' <= Cardinality(Posted(r))
          /\ (req'[r].kind = "async" /\ tick'[r] # tick[r]) =>
               /\ req[r].kind = "async"
               /\ Outstanding(r) = 1
               /\ last'.r = r
               /\ IF Posted(r) # {}
                    THEN last'.handler = "RunFromMainLoop" /\ Posted(r)' = {}
                    ELSE last'.handler = "OnValueChangedOrTimeout"]_vars

C8_Witness == last.handler = "AsyncPolicyRequest" /\ Len(loop) = 2

\* C9: in a pass that finds the context expired, ResetExpiration is called
\* before ResetEvaluation, which is called before the primary policy, and
\* the pass invokes the primary policy and ends as any pass does: an
\* asynchronous one delivers its status or schedules the reevaluation.
C9_ExpirationResetBeforeEvaluation ==
  (AnyPass /\ Ret("is_expired") = "true") =>
    /\ First("is_expired") = 1
    /\ Count("ResetExpiration") = 1
    /\ First("ResetExpiration") < First("ResetEvaluation")
    /\ First("ResetEvaluation") < First("policy_")
    /\ Count("policy_") = 1
    /\ last.status \in EvalStatus
    /\ AsyncPass =>
         IF last.status = kAskMeAgainLater
           THEN Count("RunOnValueChangeOrTimeout") = 1
           ELSE /\ Count("callback.Run") = 1
                /\ cbArgs[last.r].status = last.status

C9_Witness == AsyncPass /\ Ret("is_expired") = "true"

\* C10: a pass that ends with kAskMeAgainLater and a scheduled reevaluation
\* delivers nothing; the pass run when the context fires uses the context,
\* method and argument values of the request, resets the evaluation before
\* invoking the policy, and if it ends kSucceeded the callback runs once,
\* with kSucceeded and the result of that pass.
C10_RescheduledPassReusesRequest ==
  /\ (AsyncPass /\ last.status = kAskMeAgainLater
                /\ Ret("RunOnValueChangeOrTimeout") = "true") =>
       /\ Count("callback.Run") = 0
       /\ cbCount[last.r] = 0
  /\ (last.handler = "OnValueChangedOrTimeout") =>
       /\ PrimaryCall.ec = req[last.r].ec
       /\ PrimaryCall.method = req[last.r].method
       /\ PrimaryCall.args = req[last.r].args
       /\ Count("ResetEvaluation") = 1
       /\ First("ResetEvaluation") < First("policy_")
       /\ (last.status = kSucceeded) =>
            /\ Count("callback.Run") = 1
            /\ cbCount[last.r] = 1
            /\ cbArgs[last.r] = [status |-> kSucceeded, result |-> last.result]
            /\ last.result \in PrimaryValues \cup DefaultValues

C10_Witness ==
  /\ last.handler = "OnValueChangedOrTimeout"
  /\ last.status = kSucceeded
  /\ cbCount[last.r] = 1

\* C11 as stated: the DCHECK of PolicyRequest (line 116) holds after every
\* synchronous request: its pass never yields kAskMeAgainLater.
C11_Original == SyncPass => DCheckHolds(last.status)

\* C12: when an asynchronous pass ends with kAskMeAgainLater and the context
\* cannot schedule a reevaluation, the handler resolves the request in that
\* same pass: its last two calls are the refused RunOnValueChangeOrTimeout
\* and callback.Run, the callback gets the indeterminate status with the
\* result slot of the pass, and the request is not left holding a closure.
C12_UnschedulableResolvedInSamePass ==
  Unschedulable =>
    /\ Len(last.calls) >= 2
    /\ last.calls[Len(last.calls)].call = "callback.Run"
    /\ last.calls[Len(last.calls) - 1].call = "RunOnValueChangeOrTimeout"
    /\ Delivered(last.r)
    /\ cbArgs[last.r].status = last.status
    /\ cbArgs[last.r].result = last.result
    /\ Registered(last.r) = {} /\ Posted(last.r) = {}
    /\ ~ecs[req[last.r].ec].alive

\* The unschedulable case met on a reevaluation, after an earlier reschedule.
C12_Witness == Unschedulable /\ last.handler = "OnValueChangedOrTimeout"

\* C13: the passes of one asynchronous request are strictly sequential.  A
\* request never holds more than one closure (posted or registered); a pass
\* of it starts only by running the one closure it holds; a pass registers
\* at most once, after its policy calls, only when it ended with
\* kAskMeAgainLater, and nothing but the forced delivery follows the
\* registration inside the handler; a registration appears only as the last
\* act of such a pass of the same request.
C13_PassesStrictlySequential ==
  /\ [](\A r \in Requests : Outstanding(r) <= 1)
  /\ [](AsyncPass =>
          /\ Count("policy_") = 1
          /\ Count("RunOnValueChangeOrTimeout") <= 1
          /\ Count("RunOnValueChangeOrTimeout") = 1 =>
               /\ last.status = kAskMeAgainLater
               /\ First("policy_") < First("RunOnValueChangeOrTimeout")
               /\ \A i \in 1..Len(last.calls) :
                    i > First("RunOnValueChangeOrTimeout") =>
                      last.calls[i].call = "callback.Run")
  /\ [][\A r \in Requests :
          /\ (IsAsync(r) /\ tick'[r] # tick[r]) =>
               /\ Outstanding(r) = 1
               /\ last'.r = r
               /\ Registered(r)' # {} =>
                    /\ last'.status = kAskMeAgainLater
                    /\ last'.calls[Len(last'.calls)].call
                         = "RunOnValueChangeOrTimeout"
                    /\ last'.calls[Len(last'.calls)].ret = "true"
                    /\ Posted(r)' = {}
          /\ (Registered(r)' # {} /\ Registered(r) = {}) =>
               tick'[r] # tick[r]]_vars

\* A request registered again at the end of its second pass.
C13_Witness ==
  \E r \in Requests :
    /\ Registered(r) # {} /\ tick[r] = 0
    /\ last.r = r /\ last.handler = "OnValueChangedOrTimeout"

\* C14: every request creates exactly one evaluation context.  There are as
\* many contexts as requests and no two requests have the same one; every
\* closure of a request, posted or registered, is bound to the context of
\* its request, and every call a handler makes on a context is made on the
\* context of the request it runs for, so all passes of an asynchronous
\* request use the context created with it; the context of a synchronous
\* request serves its single pass, is released, and serves no other pass.
C14_OneContextPerRequest ==
  /\ [](/\ Len(ecs) = NumRequests
        /\ \A r \in Requests :
             req[r].kind # "none" =>
               /\ req[r].ec \in 1..Len(ecs)
               /\ \A q \in Requests \ {r} :
                    req[q].kind # "none" => req[q].ec # req[r].ec
        /\ \A i \in 1..Len(loop) : loop[i].ec = req[loop[i].r].ec
        /\ \A e \in 1..Len(ecs) :
             ecs[e].callback_ # <<>> =>
               /\ ecs[e].callback_[1].ec = e
               /\ req[ecs[e].callback_[1].r].ec = e
        /\ last.handler # "" =>
             \A i \in 1..Len(last.calls) :
               last.calls[i].ec \in {0, req[last.r].ec}
        /\ \A r \in Requests :
             req[r].kind = "sync" =>
               /\ tick[r] = 1
               /\ Outstanding(r) = 0
               /\ ~ecs[req[r].ec].alive)
  /\ [][\A r \in Requests :
          /\ req[r].kind # "none" => req'[r] = req[r]
          /\ req[r].kind = "sync" =>
               /\ tick'[r] = tick[r]
               /\ ecs'[req[r].ec] = ecs[req[r].ec]]_vars

\* Two asynchronous requests, each registered again in its own context,
\* the last one at the end of a reevaluation.
C14_Witness ==
  /\ \A r \in Requests : IsAsync(r) /\ Registered(r) = {req[r].ec}
  /\ last.handler = "OnValueChangedOrTimeout"
  /\ Count("RunOnValueChangeOrTimeout") = 1

\* C15: an asynchronous request whose one outstanding closure is released
\* unfired is abandoned.  Only a pending, undelivered asynchronous request
\* can be abandoned, by the release of the single closure it holds; from
\* then on it holds no closure, its context is gone, no pass runs for it and
\* its callback never runs.  A delivered request holds no closure, so it
\* cannot be abandoned: no request is both delivered and abandoned.
C15_AbandonedNeverDeliveredNorEvaluated ==
  /\ [](\A r \in Requests :
          /\ dropped[r] => /\ IsAsync(r)
                           /\ cbCount[r] = 0
                           /\ Posted(r) = {} /\ Registered(r) = {}
                           /\ ~ecs[req[r].ec].alive
          /\ Delivered(r) => /\ Posted(r) = {} /\ Registered(r) = {}
                             /\ ~dropped[r])
  /\ [][\A r \in Requests :
          /\ dropped[r] => /\ dropped'[r]
                           /\ tick'[r] = tick[r]
                           /\ cbCount'[r] = 0
          /\ (dropped'[r] /\ ~dropped[r]) =>
               /\ Outstanding(r) = 1
               /\ ~Delivered(r)
               /\ tick'[r] = tick[r]
               /\ last' = last]_vars

\* A request abandoned after a pass that rescheduled it, while another
\* request has been delivered.
C15_Witness ==
  \E r, q \in Requests :
    /\ dropped[r] /\ tick[r] = 1
    /\ Delivered(q)

\* C16: the status of a pass is a function of what the two policies
\* returned: the primary's status when that is kSucceeded or
\* kAskMeAgainLater; otherwise kSucceeded when the default policy returned
\* kSucceeded and kFailed when it returned kFailed or kAskMeAgainLater.  The
\* result of a kSucceeded pass is a value of the policy that returned
\* kSucceeded: the default policy's after a fallback, whatever the primary
\* had left in the slot.
C16_PassStatusAndResultFromOutcomes ==
  AnyPass =>
    LET p == Ret("policy_")
        d == Ret("default_policy_")
    IN /\ p \in EvalStatus
       /\ last.status =
            IF p \in {kSucceeded, kAskMeAgainLater} THEN p
            ELSE IF d = kSucceeded THEN kSucceeded ELSE kFailed
       /\ (p = kFailed) => (d \in EvalStatus)
       /\ (last.status = kSucceeded) =>
            last.result \in (IF p = kSucceeded THEN PrimaryValues
                             ELSE DefaultValues)

\* A reevaluation whose fallback succeeded, and the default policy's value
\* delivered to the callback.
C16_Witness ==
  /\ last.handler = "OnValueChangedOrTimeout"
  /\ Ret("policy_") = kFailed /\ Ret("default_policy_") = kSucceeded
  /\ cbArgs[last.r].result \in DefaultValues

\* C17: in every pass ResetEvaluation is called exactly once, before the
\* primary policy, and so not between the primary policy and the fallback;
\* is_expired is asked once, first of all, and ResetExpiration is called
\* (once, before ResetEvaluation) exactly when it answered true.
C17_ResetsOncePerPass ==
  AnyPass =>
    /\ Count("ResetEvaluation") = 1
    /\ Count("policy_") = 1
    /\ First("ResetEvaluation") < First("policy_")
    /\ \A i \in Positions("default_policy_") :
         /\ i = First("policy_") + 1
         /\ First("ResetEvaluation") < i
    /\ Count("is_expired") = 1 /\ First("is_expired") = 1
    /\ Count("ResetExpiration") = (IF Ret("is_expired") = "true" THEN 1 ELSE 0)
    /\ \A i \in Positions("ResetExpiration") :
         First("is_expired") < i /\ i < First("ResetEvaluation")

\* A pass on a context that had not expired, in which the fallback failed.
C17_Witness ==
  /\ AnyPass
  /\ Ret("is_expired") = "false"
  /\ Ret("default_policy_") = kFailed

\* The closures of request r waiting on the main loop, in order.
PostedClosures(r) == SelectSeq(loop, LAMBDA cl : cl.r = r)

\* A step changes something of request r: its record, its passes, its
\* callback, its abandonment, its posted closure or its context (with the
\* closure registered there).
Touched(r) ==
  \/ req'[r] # req[r]
  \/ tick'[r] # tick[r]
  \/ cbCount'[r] # cbCount[r]
  \/ cbArgs'[r] # cbArgs[r]
  \/ dropped'[r] # dropped[r]
  \/ PostedClosures(r)' # PostedClosures(r)
  \/ req[r].kind # "none" /\ ecs'[req[r].ec] # ecs[req[r].ec]

\* C18: requests do not interfere.  Every asynchronous pass is one handler
\* run for one request: it evaluates once, with the method and arguments and
\* on the context of that request, and ends with its delivery or its
\* registration.  No step (a pass, a delivery, a reschedule, a release)
\* changes anything of two requests: the posted or registered closure, the
\* context and the callback of every other request stay as they were.  A
\* callback runs only in a pass of its own request and gets the status and
\* result of that pass, which is the last pass of the request.
C18_RequestsDoNotInterfere ==
  /\ [](AsyncPass =>
          /\ IsAsync(last.r)
          /\ Count("policy_") = 1
          /\ \A i \in 1..Len(last.calls) :
               /\ last.calls[i].ec \in {0, req[last.r].ec}
               /\ last.calls[i].call \in {"policy_", "default_policy_"} =>
                    /\ last.calls[i].method = req[last.r].method
                    /\ last.calls[i].args = req[last.r].args
          /\ last.calls[Len(last.calls)].call
               \in {"callback.Run", "RunOnValueChangeOrTimeout"})
  /\ [][\A r \in Requests :
          /\ \A q \in Requests \ {r} : ~(Touched(r) /\ Touched(q))
          /\ cbCount'[r] # cbCount[r] =>
               /\ last'.r = r
               /\ tick'[r] # tick[r]
               /\ cbArgs'[r] = [status |-> last'.status,
                                result |-> last'.result]
          /\ (Delivered(r) /\ last.r = r /\ last'.r = r) => last' = last]_vars

\* With both requests pending and rescheduled, one is delivered by a
\* reevaluation while the other, two passes old, stays registered.
C18_Witness ==
  \E r, q \in Requests :
    /\ r # q /\ IsAsync(r) /\ IsAsync(q)
    /\ last.r = r /\ last.handler = "OnValueChangedOrTimeout"
    /\ Delivered(r) /\ cbArgs[r].result \in PrimaryValues
    /\ Registered(q) # {} /\ tick[q] = 0

====
